---- MODULE Spec2Model ----
(***************************************************************************)
(* A model of dioxus-collection-store: the Collection contract and its     *)
(* adapters (Vec, HashMap, the CircularBuffer example), the                *)
(* CollectionStore that pairs a container with one optional selected key,  *)
(* and the CollectionItem handle (store + key).                            *)
(*                                                                         *)
(* Keys are naturals for every adapter (usize indices for Vec and          *)
(* CircularBuffer, an integer key type for HashMap); values are small      *)
(* naturals.  A CollectionItem is the pair (store, key) and store.get(k)   *)
(* builds one for any key, so the Item operations take the key directly.   *)
(***************************************************************************)
EXTENDS Naturals, Sequences, FiniteSets

\* Largest container length (and ring-buffer capacity) explored.
MaxLen == 3

\* The largest ring-buffer capacity explored by SpecRing.
RingCap == 5

\* The most read accessors the caller holds at once.
MaxReaders == 2

\* Keys handed to the operations: every index of a full container and one past it.
Keys == 0..MaxLen

\* The code is generic in the value type: it moves values, compares them for
\* equality and displays them, nothing else.  Two distinct values are enough to
\* tell any two elements apart and to have duplicates.
Values == {1, 2}

\* Values looked for: the stored ones and one that no element holds.
Probes == Values \cup {0}

VARIABLES
    items,          \* CollectionData.items: the container
    selected_key,   \* CollectionData.selected_key: Option<Key>
    pc,             \* the caller's position: between calls, inside one, holding its result
    call,           \* the running call: operation, arguments, the two fields at call time
    ret,            \* what the call returned
    iter,           \* the iterator iter() handed out, if the caller holds one
    leases          \* the accessors on store.items() the caller holds

vars == <<items, selected_key, pc, call, ret, iter, leases>>

\* What an operation that hands out no iterator and no accessor leaves alone.
held == <<iter, leases>>

(***************************************************************************)
(* Option, Result and the other return values                              *)
(***************************************************************************)
None == <<"None">>
Some(x) == <<"Some", x>>
IsSome(o) == o[1] = "Some"
Unwrap(o) == o[2]

Ok == <<"Ok">>
ErrKeyNotFound == <<"Err", "KeyNotFound">>
Unit == <<"Unit">>
Panic == <<"Panic">>
Pending == <<"Pending">>

\* Display of an integer value: its decimal digits.
RECURSIVE to_string(_)
to_string(n) == IF n < 10 THEN <<n>> ELSE Append(to_string(n \div 10), n % 10)

\* usize::saturating_sub
SaturatingSub(a, b) == IF a >= b THEN a - b ELSE 0

\* Vec::remove(index) on the backing storage (0-based index, index < len).
SeqRemoveAt(s, i) == [j \in 1..(Len(s) - 1) |-> IF j <= i THEN s[j] ELSE s[j + 1]]

\* slice::swap(i, j) (0-based).
SeqSwap(s, i, j) ==
    [x \in 1..Len(s) |-> IF x = i + 1 THEN s[j + 1] ELSE IF x = j + 1 THEN s[i + 1] ELSE s[x]]

\* slice::get(i) (0-based).
SliceGet(s, i) == IF i < Len(s) THEN Some(s[i + 1]) ELSE None

(***************************************************************************)
(* impl Collection for Vec<T>                                              *)
(***************************************************************************)
VecNew == [kind |-> "vec", data |-> <<>>]

VecLen(c) == Len(c.data)

VecGet(c, k) == SliceGet(c.data, k)

\* get_mut: the slot a mutable reference points to.
VecGetMut(c, k) == IF k < Len(c.data) THEN Some(k) ELSE None

VecSet(c, k, v) ==
    IF k < VecLen(c)
    THEN [c |-> [c EXCEPT !.data[k + 1] = v], ret |-> TRUE]
    ELSE [c |-> c, ret |-> FALSE]

\* insert that shifts the later elements up instead of replacing (Vec's inherent insert).
VecInsertShift(c, k, v) ==
    IF k <= VecLen(c)
    THEN [c |-> [c EXCEPT !.data = SubSeq(c.data, 1, k) \o <<v>> \o SubSeq(c.data, k + 1, Len(c.data))],
          ret |-> None]
    ELSE [c |-> c, ret |-> None]

VecInsert(c, k, v) ==
    IF k = VecLen(c)
    THEN [c |-> [c EXCEPT !.data = Append(c.data, v)], ret |-> None]
    ELSE IF k < VecLen(c)
         THEN [c |-> [c EXCEPT !.data[k + 1] = v], ret |-> Some(c.data[k + 1])]
         ELSE [c |-> c, ret |-> None]

\* remove that fills the hole with the last element (swap_remove).
VecSwapRemove(c, k) ==
    IF k < VecLen(c)
    THEN [c |-> [c EXCEPT !.data = SubSeq([c.data EXCEPT ![k + 1] = c.data[Len(c.data)]],
                                          1, Len(c.data) - 1)],
          ret |-> Some(c.data[k + 1])]
    ELSE [c |-> c, ret |-> None]

VecRemove(c, k) ==
    IF k < VecLen(c)
    THEN [c |-> [c EXCEPT !.data = SeqRemoveAt(c.data, k)], ret |-> Some(c.data[k + 1])]
    ELSE [c |-> c, ret |-> None]

VecKeys(c) == [i \in 1..VecLen(c) |-> i - 1]

VecClear(c) == [c EXCEPT !.data = <<>>]

VecPush(c, v) == [c EXCEPT !.data = Append(c.data, v)]

VecPop(c) ==
    IF Len(c.data) = 0
    THEN [c |-> c, ret |-> None]
    ELSE [c |-> [c EXCEPT !.data = SubSeq(c.data, 1, Len(c.data) - 1)],
          ret |-> Some(c.data[Len(c.data)])]

VecFirst(c) == SliceGet(c.data, 0)

VecSwap(c, k1, k2) ==
    IF k1 < VecLen(c) /\ k2 < VecLen(c)
    THEN [c EXCEPT !.data = SeqSwap(c.data, k1, k2)]
    ELSE c

(***************************************************************************)
(* impl Collection for HashMap<K, V>                                       *)
(***************************************************************************)
EmptyMap == [k \in {} |-> 0]

MapNew == [kind |-> "map", entries |-> EmptyMap]

MapLen(c) == Cardinality(DOMAIN c.entries)

MapIsEmpty(c) == DOMAIN c.entries = {}

MapGet(c, k) == IF k \in DOMAIN c.entries THEN Some(c.entries[k]) ELSE None

MapGetMut(c, k) == IF k \in DOMAIN c.entries THEN Some(k) ELSE None

\* set that inserts a missing key.
MapSetUpsert(c, k, v) ==
    [c |-> [c EXCEPT !.entries =
                [x \in (DOMAIN c.entries) \cup {k} |-> IF x = k THEN v ELSE c.entries[x]]],
     ret |-> k \in DOMAIN c.entries]

MapSet(c, k, v) ==
    IF k \in DOMAIN c.entries
    THEN [c |-> [c EXCEPT !.entries[k] = v], ret |-> TRUE]
    ELSE [c |-> c, ret |-> FALSE]

\* insert that keeps the value of a key already present.
MapInsertIfAbsent(c, k, v) ==
    IF k \in DOMAIN c.entries
    THEN [c |-> c, ret |-> Some(c.entries[k])]
    ELSE [c |-> [c EXCEPT !.entries =
                    [x \in (DOMAIN c.entries) \cup {k} |-> IF x = k THEN v ELSE c.entries[x]]],
          ret |-> None]

MapInsert(c, k, v) ==
    [c |-> [c EXCEPT !.entries =
                [x \in (DOMAIN c.entries) \cup {k} |-> IF x = k THEN v ELSE c.entries[x]]],
     ret |-> MapGet(c, k)]

MapRemove(c, k) ==
    [c |-> [c EXCEPT !.entries = [x \in (DOMAIN c.entries) \ {k} |-> c.entries[x]]],
     ret |-> MapGet(c, k)]

\* Every ordering of a finite set.
RECURSIVE Orderings(_)
Orderings(S) ==
    IF S = {}
    THEN {<<>>}
    ELSE UNION {{<<x>> \o rest : rest \in Orderings(S \ {x})} : x \in S}

\* HashMap::keys() iterates in an unspecified order: every ordering of the key set.
MapKeys(c) == Orderings(DOMAIN c.entries)

MapClear(c) == [c EXCEPT !.entries = EmptyMap]

(***************************************************************************)
(* impl Collection for BTreeMap<K, V>: a map whose keys() are sorted.      *)
(***************************************************************************)
BTreeNew == [kind |-> "btree", entries |-> EmptyMap]

BTreeLen(c) == Cardinality(DOMAIN c.entries)

BTreeGet(c, k) == IF k \in DOMAIN c.entries THEN Some(c.entries[k]) ELSE None

BTreeGetMut(c, k) == IF k \in DOMAIN c.entries THEN Some(k) ELSE None

BTreeSet(c, k, v) ==
    IF k \in DOMAIN c.entries
    THEN [c |-> [c EXCEPT !.entries[k] = v], ret |-> TRUE]
    ELSE [c |-> c, ret |-> FALSE]

BTreeInsert(c, k, v) ==
    [c |-> [c EXCEPT !.entries =
                [x \in (DOMAIN c.entries) \cup {k} |-> IF x = k THEN v ELSE c.entries[x]]],
     ret |-> BTreeGet(c, k)]

BTreeRemove(c, k) ==
    [c |-> [c EXCEPT !.entries = [x \in (DOMAIN c.entries) \ {k} |-> c.entries[x]]],
     ret |-> BTreeGet(c, k)]

\* The elements of a finite set of keys, smallest first.
RECURSIVE Ascending(_)
Ascending(S) ==
    IF S = {}
    THEN <<>>
    ELSE LET least == CHOOSE x \in S : \A y \in S : x <= y
         IN  <<least>> \o Ascending(S \ {least})

\* keys() largest first.
BTreeKeysDescending(c) ==
    LET asc == Ascending(DOMAIN c.entries)
    IN  [i \in 1..Len(asc) |-> asc[Len(asc) + 1 - i]]

\* keys(): the map iterates in key order.
BTreeKeys(c) == Ascending(DOMAIN c.entries)

BTreeClear(c) == [c EXCEPT !.entries = EmptyMap]

(***************************************************************************)
(* CircularBuffer<T> (examples/lib/custom_collection.rs)                   *)
(***************************************************************************)
RingNew(capacity) ==
    [kind |-> "ring", data |-> <<>>, capacity |-> capacity, start |-> 0, len |-> 0]

\* real_index without its bounds check.
RingRealIndexUnchecked(c, logical_index) ==
    IF Len(c.data) = 0
    THEN None
    ELSE Some((c.start + logical_index) % Len(c.data))

\* real_index: the physical index of a logical index, None past the logical length.
\* The modulus is the backing storage's current length, as in the source.
RingRealIndex(c, logical_index) ==
    IF logical_index >= c.len
    THEN None
    ELSE Some((c.start + logical_index) % Len(c.data))

RingGet(c, k) ==
    LET idx == RingRealIndex(c, k)
    IN  IF IsSome(idx) THEN SliceGet(c.data, Unwrap(idx)) ELSE None

RingGetMut(c, k) ==
    LET idx == RingRealIndex(c, k)
    IN  IF IsSome(idx) /\ Unwrap(idx) < Len(c.data) THEN idx ELSE None

RingSet(c, k, v) ==
    LET idx == RingRealIndex(c, k)
    IN  IF IsSome(idx)
        THEN [c |-> [c EXCEPT !.data[Unwrap(idx) + 1] = v], ret |-> TRUE]
        ELSE [c |-> c, ret |-> FALSE]

RingInsert(c, k, v) ==
    LET idx == RingRealIndex(c, k)
    IN  IF IsSome(idx)
        THEN [c |-> [c EXCEPT !.data[Unwrap(idx) + 1] = v],
              ret |-> Some(c.data[Unwrap(idx) + 1])]
        ELSE [c |-> c, ret |-> None]

RingRemove(c, k) ==
    IF k >= c.len
    THEN [c |-> c, ret |-> None]
    ELSE LET real_idx == Unwrap(RingRealIndex(c, k))
         IN  [c |-> [c EXCEPT !.data = SeqRemoveAt(c.data, real_idx),
                              !.start = IF real_idx < c.start
                                        THEN SaturatingSub(c.start, 1)
                                        ELSE c.start,
                              !.len = c.len - 1],
              ret |-> Some(c.data[real_idx + 1])]

RingKeys(c) == [i \in 1..c.len |-> i - 1]

RingLen(c) == c.len

RingIsEmpty(c) == c.len = 0

RingClear(c) == [c EXCEPT !.data = <<>>, !.start = 0, !.len = 0]

\* push that overwrites on a full buffer without advancing start.
RingPushNoAdvance(c, v) ==
    IF Len(c.data) < c.capacity
    THEN [c EXCEPT !.data = Append(c.data, v), !.len = c.len + 1]
    ELSE LET write_idx == (c.start + c.len) % c.capacity
         IN  [c EXCEPT !.data = IF write_idx < Len(c.data)
                                THEN [c.data EXCEPT ![write_idx + 1] = v]
                                ELSE c.data]

RingPush(c, v) ==
    IF Len(c.data) < c.capacity
    THEN [c EXCEPT !.data = Append(c.data, v), !.len = c.len + 1]
    ELSE LET write_idx == (c.start + c.len) % c.capacity
         IN  [c EXCEPT !.data = IF write_idx < Len(c.data)
                                THEN [c.data EXCEPT ![write_idx + 1] = v]
                                ELSE c.data,
                       !.start = (c.start + 1) % c.capacity]

\* pop that forgets to shorten the logical length.
RingPopKeepLen(c) ==
    IF RingIsEmpty(c)
    THEN [c |-> c, ret |-> None]
    ELSE LET len == c.len - 1
             idx == (c.start + len) % Len(c.data)
         IN  [c |-> [c EXCEPT !.data = SeqRemoveAt(c.data, idx)],
              ret |-> Some(c.data[idx + 1])]

RingPop(c) ==
    IF RingIsEmpty(c)
    THEN [c |-> c, ret |-> None]
    ELSE LET len == c.len - 1
             idx == (c.start + len) % Len(c.data)
         IN  [c |-> [c EXCEPT !.len = len, !.data = SeqRemoveAt(c.data, idx)],
              ret |-> Some(c.data[idx + 1])]

\* first() reads the backing storage at `start` through Vec's Collection::get.
RingFirst(c) == IF RingIsEmpty(c) THEN None ELSE VecGet([kind |-> "vec", data |-> c.data], c.start)

\* swap() goes through Vec's SequentialCollection::swap on the backing storage.
RingSwap(c, k1, k2) ==
    LET idx1 == RingRealIndex(c, k1)
        idx2 == RingRealIndex(c, k2)
    IN  IF IsSome(idx1) /\ IsSome(idx2)
        THEN [c EXCEPT !.data =
                 VecSwap([kind |-> "vec", data |-> c.data], Unwrap(idx1), Unwrap(idx2)).data]
        ELSE c

(***************************************************************************)
(* The Collection and SequentialCollection traits: dispatch on the adapter *)
(***************************************************************************)
Sequential(c) == c.kind \in {"vec", "ring"}

Get(c, k) ==
    CASE c.kind = "vec" -> VecGet(c, k)
      [] c.kind = "map" -> MapGet(c, k)
      [] c.kind = "btree" -> BTreeGet(c, k)
      [] c.kind = "ring" -> RingGet(c, k)

GetMut(c, k) ==
    CASE c.kind = "vec" -> VecGetMut(c, k)
      [] c.kind = "map" -> MapGetMut(c, k)
      [] c.kind = "btree" -> BTreeGetMut(c, k)
      [] c.kind = "ring" -> RingGetMut(c, k)

\* Assignment through the mutable reference get_mut returned (slot: its target).
WriteSlot(c, slot, v) ==
    CASE c.kind = "vec" -> [c EXCEPT !.data[slot + 1] = v]
      [] c.kind = "map" -> [c EXCEPT !.entries[slot] = v]
      [] c.kind = "btree" -> [c EXCEPT !.entries[slot] = v]
      [] c.kind = "ring" -> [c EXCEPT !.data[slot + 1] = v]

Set(c, k, v) ==
    CASE c.kind = "vec" -> VecSet(c, k, v)
      [] c.kind = "map" -> MapSet(c, k, v)
      [] c.kind = "btree" -> BTreeSet(c, k, v)
      [] c.kind = "ring" -> RingSet(c, k, v)

Insert(c, k, v) ==
    CASE c.kind = "vec" -> VecInsert(c, k, v)
      [] c.kind = "map" -> MapInsert(c, k, v)
      [] c.kind = "btree" -> BTreeInsert(c, k, v)
      [] c.kind = "ring" -> RingInsert(c, k, v)

Remove(c, k) ==
    CASE c.kind = "vec" -> VecRemove(c, k)
      [] c.kind = "map" -> MapRemove(c, k)
      [] c.kind = "btree" -> BTreeRemove(c, k)
      [] c.kind = "ring" -> RingRemove(c, k)

\* The sequences keys() may return (one for Vec and CircularBuffer).
KeysOf(c) ==
    CASE c.kind = "vec" -> {VecKeys(c)}
      [] c.kind = "map" -> MapKeys(c)
      [] c.kind = "btree" -> {BTreeKeys(c)}
      [] c.kind = "ring" -> {RingKeys(c)}

Length(c) ==
    CASE c.kind = "vec" -> VecLen(c)
      [] c.kind = "map" -> MapLen(c)
      [] c.kind = "btree" -> BTreeLen(c)
      [] c.kind = "ring" -> RingLen(c)

\* Vec keeps the trait's default is_empty; HashMap and CircularBuffer override it.
IsEmpty(c) ==
    CASE c.kind = "vec" -> Length(c) = 0
      [] c.kind = "map" -> MapIsEmpty(c)
      [] c.kind = "btree" -> Length(c) = 0
      [] c.kind = "ring" -> RingIsEmpty(c)

\* Collection::contains_key (default method).
ContainsKey(c, k) == IsSome(Get(c, k))

Clear(c) ==
    CASE c.kind = "vec" -> VecClear(c)
      [] c.kind = "map" -> MapClear(c)
      [] c.kind = "btree" -> BTreeClear(c)
      [] c.kind = "ring" -> RingClear(c)

\* extend that inserts the pairs last to first.
RECURSIVE ExtendReversed(_, _)
ExtendReversed(c, pairs) ==
    IF pairs = <<>>
    THEN c
    ELSE LET last == pairs[Len(pairs)]
         IN  ExtendReversed(Insert(c, last[1], last[2]).c, SubSeq(pairs, 1, Len(pairs) - 1))

\* Collection::extend (default method): insert each pair in order.
RECURSIVE Extend(_, _)
Extend(c, pairs) ==
    IF pairs = <<>>
    THEN c
    ELSE Extend(Insert(c, Head(pairs)[1], Head(pairs)[2]).c, Tail(pairs))

Push(c, v) ==
    CASE c.kind = "vec" -> VecPush(c, v)
      [] c.kind = "ring" -> RingPush(c, v)

Pop(c) ==
    CASE c.kind = "vec" -> VecPop(c)
      [] c.kind = "ring" -> RingPop(c)

First(c) ==
    CASE c.kind = "vec" -> VecFirst(c)
      [] c.kind = "ring" -> RingFirst(c)

Swap(c, k1, k2) ==
    CASE c.kind = "vec" -> VecSwap(c, k1, k2)
      [] c.kind = "ring" -> RingSwap(c, k1, k2)

(***************************************************************************)
(* CollectionStore: read-only methods                                      *)
(***************************************************************************)
StoreLen == Length(items)

StoreIsEmpty == IsEmpty(items)

StoreContainsKey(k) == IsSome(Get(items, k))

StoreSelectedKey == selected_key

\* selected(): an Item (its key) for the current selection, or None.
StoreSelected == IF IsSome(StoreSelectedKey) THEN Some(Unwrap(StoreSelectedKey)) ELSE None

\* first() / last(): Items with key 0 and len - 1 (sequential containers).
StoreFirst == IF StoreIsEmpty THEN None ELSE Some(0)

\* last() that takes len as the last key.
StoreLastPastEnd == IF StoreLen = 0 THEN None ELSE Some(StoreLen)

StoreLast == IF StoreLen = 0 THEN None ELSE Some(StoreLen - 1)

\* is_selected that only asks whether anything is selected.
ItemIsSelectedAny(k) == IsSome(selected_key)

\* CollectionItem::is_selected
ItemIsSelected(k) == selected_key = Some(k)

\* An accessor that hands out nothing instead of panicking.
ItemResolveSilent(c, k) == Get(c, k)

\* What Readable::try_read_unchecked / try_peek_unchecked hand out for key k.
ItemResolve(c, k) == IF IsSome(Get(c, k)) THEN Get(c, k) ELSE Panic

(***************************************************************************)
(* Accessors.  store.items() is one lease domain: a read or peek accessor  *)
(* holds a shared lease on it, a write accessor the exclusive one, until   *)
(* the caller drops the accessor.                                          *)
(***************************************************************************)
\* No accessor alive.  wrote remembers the last assignment made through a write
\* accessor, for as long as no other operation has changed the container since.
NoLeases == [readers |-> 0, writer |-> None, wrote |-> None]

ErrBorrow == <<"Err", "BorrowError">>
ErrBorrowMut == <<"Err", "BorrowMutError">>

\* The runtime's arbitration: a shared lease is granted unless the exclusive one
\* is out; the exclusive lease is granted when no lease at all is out.
SharedFree(l) == l.writer = None

ExclusiveFree(l) == l.writer = None /\ l.readers = 0

(***************************************************************************)
(* The caller: one call at a time (the store is single-threaded and every  *)
(* operation is synchronous).  pc is "idle" between calls, "remove_items"  *)
(* and "clear_selection" between the two sub-steps of remove and clear,    *)
(* "done" once a call has returned, with the call and its result at hand,  *)
(* and "panicked" after a panic.                                           *)
(***************************************************************************)
Idle == pc = "idle"

NoCall == [op |-> "none", args |-> <<>>, pre_items |-> <<>>, pre_sel |-> None]

Called(op, args) ==
    [op |-> op, args |-> args, pre_items |-> items, pre_sel |-> selected_key]

\* The model explores containers of at most MaxLen elements; a ring buffer is
\* bounded by its own capacity.
Fits(c) == Length(c) <= (IF c.kind = "ring" THEN c.capacity ELSE MaxLen)

\* The caller takes the result and is free to make the next call.
Return ==
    /\ pc = "done"
    /\ pc' = "idle"
    /\ call' = NoCall
    /\ ret' = Unit
    /\ UNCHANGED <<items, selected_key>>

(***************************************************************************)
(* CollectionStore: selection                                              *)
(***************************************************************************)
\* select that drops the selection when the key is missing.
SelectResetOnMiss(c, sel, k) ==
    IF ContainsKey(c, k)
    THEN [sel |-> Some(k), ret |-> Ok]
    ELSE [sel |-> None, ret |-> ErrKeyNotFound]

\* select that keeps an existing selection.
SelectKeepFirst(c, sel, k) ==
    IF ContainsKey(c, k)
    THEN [sel |-> IF IsSome(sel) THEN sel ELSE Some(k), ret |-> Ok]
    ELSE [sel |-> sel, ret |-> ErrKeyNotFound]

\* The outcome of select(key) on container c with selection sel.
Select(c, sel, k) ==
    IF ContainsKey(c, k)
    THEN [sel |-> Some(k), ret |-> Ok]
    ELSE [sel |-> sel, ret |-> ErrKeyNotFound]

StoreSelect(k) ==
    /\ Idle
    /\ selected_key' = Select(items, selected_key, k).sel
    /\ ret' = Select(items, selected_key, k).ret
    /\ call' = Called("select", <<k>>)
    /\ pc' = "done"
    /\ UNCHANGED items

\* CollectionItem::select delegates to CollectionStore::select.
ItemSelect(k) ==
    /\ Idle
    /\ selected_key' = Select(items, selected_key, k).sel
    /\ ret' = Select(items, selected_key, k).ret
    /\ call' = Called("item_select", <<k>>)
    /\ pc' = "done"
    /\ UNCHANGED items

\* item.read() == value  /  item.read().to_string() == display_value
Matches(mode, stored, wanted) ==
    IF mode = "value" THEN stored = wanted ELSE to_string(stored) = wanted

\* The loop without its early return: the last match wins.
RECURSIVE SelectByLast(_, _, _, _, _)
SelectByLast(c, sel, ks, mode, wanted) ==
    IF ks = <<>>
    THEN [sel |-> sel, ret |-> ErrKeyNotFound]
    ELSE LET rest == SelectByLast(c, sel, Tail(ks), mode, wanted)
         IN  IF rest.ret = Ok
             THEN rest
             ELSE IF Matches(mode, Unwrap(Get(c, Head(ks))), wanted)
                  THEN [sel |-> Some(Head(ks)), ret |-> Ok]
                  ELSE rest

\* The loop of select_by_value / select_by_display over the snapshot ks of keys():
\* the first Item whose value matches is selected through Item::select.
RECURSIVE SelectBy(_, _, _, _, _)
SelectBy(c, sel, ks, mode, wanted) ==
    IF ks = <<>>
    THEN [sel |-> sel, ret |-> ErrKeyNotFound]
    ELSE LET item == ItemResolve(c, Head(ks))
         IN  IF item = Panic
             THEN [sel |-> sel, ret |-> Panic]
             ELSE IF Matches(mode, Unwrap(item), wanted)
                  THEN Select(c, sel, Head(ks))
                  ELSE SelectBy(c, sel, Tail(ks), mode, wanted)

\* select_by_value(v), keys() having returned ks.
StoreSelectByValue(v, ks) ==
    /\ Idle
    /\ selected_key' = SelectBy(items, selected_key, ks, "value", v).sel
    /\ ret' = SelectBy(items, selected_key, ks, "value", v).ret
    /\ call' = Called("select_by_value", <<v, ks>>)
    /\ pc' = IF SelectBy(items, selected_key, ks, "value", v).ret = Panic
             THEN "panicked" ELSE "done"
    /\ UNCHANGED items

\* select_by_display(s), keys() having returned ks.
StoreSelectByDisplay(s, ks) ==
    /\ Idle
    /\ selected_key' = SelectBy(items, selected_key, ks, "display", s).sel
    /\ ret' = SelectBy(items, selected_key, ks, "display", s).ret
    /\ call' = Called("select_by_display", <<s, ks>>)
    /\ pc' = IF SelectBy(items, selected_key, ks, "display", s).ret = Panic
             THEN "panicked" ELSE "done"
    /\ UNCHANGED items

\* clear_selection that empties the container as well.
StoreClearSelectionAndItems ==
    /\ Idle
    /\ selected_key' = None
    /\ items' = Clear(items)
    /\ ret' = Unit
    /\ call' = Called("clear_selection", <<>>)
    /\ pc' = "done"

StoreClearSelection ==
    /\ Idle
    /\ selected_key' = None
    /\ ret' = Unit
    /\ call' = Called("clear_selection", <<>>)
    /\ pc' = "done"
    /\ UNCHANGED items

(***************************************************************************)
(* CollectionStore: data operations                                        *)
(***************************************************************************)
\* insert that selects the key it wrote.
StoreInsertSelects(k, v) ==
    /\ Idle
    /\ Fits(Insert(items, k, v).c)
    /\ items' = Insert(items, k, v).c
    /\ ret' = Insert(items, k, v).ret
    /\ selected_key' = IF ContainsKey(Insert(items, k, v).c, k) THEN Some(k) ELSE selected_key
    /\ call' = Called("insert", <<k, v>>)
    /\ pc' = "done"

StoreInsert(k, v) ==
    /\ Idle
    /\ Fits(Insert(items, k, v).c)
    /\ items' = Insert(items, k, v).c
    /\ ret' = Insert(items, k, v).ret
    /\ call' = Called("insert", <<k, v>>)
    /\ pc' = "done"
    /\ UNCHANGED selected_key

\* set as its documentation has it: a panic past the end of an array, an insert
\* of a missing map key.
StoreSetAsDocumented(k, v) ==
    /\ Idle
    /\ IF items.kind \in {"vec", "ring"} /\ ~ContainsKey(items, k)
       THEN items' = items /\ ret' = Panic /\ pc' = "panicked"
       ELSE /\ items' = IF items.kind \in {"map", "btree"}
                        THEN Insert(items, k, v).c
                        ELSE Set(items, k, v).c
            /\ ret' = Unit
            /\ pc' = "done"
    /\ Fits(items')
    /\ call' = Called("set", <<k, v>>)
    /\ UNCHANGED selected_key

\* CollectionStore::set discards the contract's bool.
StoreSet(k, v) ==
    /\ Idle
    /\ items' = Set(items, k, v).c
    /\ ret' = Unit
    /\ call' = Called("set", <<k, v>>)
    /\ pc' = "done"
    /\ UNCHANGED selected_key

StoreExtend(pairs) ==
    /\ Idle
    /\ Fits(Extend(items, pairs))
    /\ items' = Extend(items, pairs)
    /\ ret' = Unit
    /\ call' = Called("extend", <<pairs>>)
    /\ pc' = "done"
    /\ UNCHANGED selected_key

\* remove that never looks at the selection.
RemoveBeginKeepSelection(op, k) ==
    /\ Idle
    /\ pc' = "remove_items"
    /\ call' = Called(op, <<k>>)
    /\ ret' = Pending
    /\ UNCHANGED <<items, selected_key>>

\* remove with its two sub-steps swapped: the contract-level remove comes first.
RemoveBeginItemsFirst(op, k) ==
    /\ Idle
    /\ items' = Remove(items, k).c
    /\ pc' = "remove_items"
    /\ call' = Called(op, <<k>>)
    /\ ret' = Pending
    /\ UNCHANGED selected_key

\* remove that moves a selection behind the removed key one key down.
RemoveBeginShiftSelection(op, k) ==
    /\ Idle
    /\ selected_key' = IF selected_key = Some(k)
                       THEN None
                       ELSE IF IsSome(selected_key) /\ Unwrap(selected_key) > k
                            THEN Some(Unwrap(selected_key) - 1)
                            ELSE selected_key
    /\ pc' = "remove_items"
    /\ call' = Called(op, <<k>>)
    /\ ret' = Pending
    /\ UNCHANGED items

\* remove, first sub-step: clear the selection if the key is the selected one.
RemoveBegin(op, k) ==
    /\ Idle
    /\ selected_key' = IF selected_key = Some(k) THEN None ELSE selected_key
    /\ pc' = "remove_items"
    /\ call' = Called(op, <<k>>)
    /\ ret' = Pending
    /\ UNCHANGED items

StoreRemove(k) == RemoveBegin("remove", k)

\* CollectionItem::remove delegates to CollectionStore::remove.
ItemRemove(k) == RemoveBegin("item_remove", k)

\* remove whose second sub-step panics on a missing key.
StoreRemoveItemsStrict ==
    /\ pc = "remove_items"
    /\ items' = Remove(items, call.args[1]).c
    /\ ret' = IF ContainsKey(items, call.args[1]) THEN Remove(items, call.args[1]).ret ELSE Panic
    /\ pc' = IF ContainsKey(items, call.args[1]) THEN "done" ELSE "panicked"
    /\ UNCHANGED <<selected_key, call>>

\* remove, second sub-step: the contract-level remove.
StoreRemoveItems ==
    /\ pc = "remove_items"
    /\ items' = Remove(items, call.args[1]).c
    /\ ret' = Remove(items, call.args[1]).ret
    /\ pc' = "done"
    /\ UNCHANGED <<selected_key, call>>

\* clear, first sub-step: the contract-level clear.
StoreClear ==
    /\ Idle
    /\ items' = Clear(items)
    /\ pc' = "clear_selection"
    /\ call' = Called("clear", <<>>)
    /\ ret' = Pending
    /\ UNCHANGED selected_key

\* clear without its clear_selection().
StoreClearFinishKeepSelection ==
    /\ pc = "clear_selection"
    /\ ret' = Unit
    /\ pc' = "done"
    /\ UNCHANGED <<items, selected_key, call>>

\* clear, second sub-step: clear_selection().
StoreClearFinish ==
    /\ pc = "clear_selection"
    /\ selected_key' = None
    /\ ret' = Unit
    /\ pc' = "done"
    /\ UNCHANGED <<items, call>>

StorePush(v) ==
    /\ Idle
    /\ Sequential(items)
    /\ Fits(Push(items, v))
    /\ items' = Push(items, v)
    /\ ret' = Unit
    /\ call' = Called("push", <<v>>)
    /\ pc' = "done"
    /\ UNCHANGED selected_key

StorePop ==
    /\ Idle
    /\ Sequential(items)
    /\ items' = Pop(items).c
    /\ ret' = Pop(items).ret
    /\ call' = Called("pop", <<>>)
    /\ pc' = "done"
    /\ UNCHANGED selected_key

\* swap that is content with the first key existing.
StoreSwapFirstOnly(k1, k2) ==
    /\ Idle
    /\ Sequential(items)
    /\ IF StoreContainsKey(k1)
       THEN items' = Swap(items, k1, k2) /\ ret' = Ok
       ELSE items' = items /\ ret' = ErrKeyNotFound
    /\ call' = Called("swap", <<k1, k2>>)
    /\ pc' = "done"
    /\ UNCHANGED selected_key

\* swap that reports a missing key as an out-of-bounds error.
StoreSwapOutOfBounds(k1, k2) ==
    /\ Idle
    /\ Sequential(items)
    /\ IF StoreContainsKey(k1) /\ StoreContainsKey(k2)
       THEN items' = Swap(items, k1, k2) /\ ret' = Ok
       ELSE items' = items /\ ret' = <<"Err", "OutOfBounds">>
    /\ call' = Called("swap", <<k1, k2>>)
    /\ pc' = "done"
    /\ UNCHANGED selected_key

StoreSwap(k1, k2) ==
    /\ Idle
    /\ Sequential(items)
    /\ IF StoreContainsKey(k1) /\ StoreContainsKey(k2)
       THEN items' = Swap(items, k1, k2) /\ ret' = Ok
       ELSE items' = items /\ ret' = ErrKeyNotFound
    /\ call' = Called("swap", <<k1, k2>>)
    /\ pc' = "done"
    /\ UNCHANGED selected_key

(***************************************************************************)
(* CollectionItem: access through the handle                               *)
(***************************************************************************)
\* The guard of a read / peek accessor: the value the key resolves to now, or a panic.
ItemAccess(op, k) ==
    /\ Idle
    /\ ret' = ItemResolve(items, k)
    /\ pc' = IF ItemResolve(items, k) = Panic THEN "panicked" ELSE "done"
    /\ call' = Called(op, <<k>>)
    /\ UNCHANGED <<items, selected_key>>

ItemRead(k) == ItemAccess("item_read", k)

ItemPeek(k) == ItemAccess("item_peek", k)

\* *item.write() = v: a mutable reference to the slot the key resolves to, or a panic.
ItemWrite(k, v) ==
    /\ Idle
    /\ IF IsSome(GetMut(items, k))
       THEN /\ items' = WriteSlot(items, Unwrap(GetMut(items, k)), v)
            /\ ret' = Unit
            /\ pc' = "done"
       ELSE /\ items' = items
            /\ ret' = Panic
            /\ pc' = "panicked"
    /\ call' = Called("item_write", <<k, v>>)
    /\ UNCHANGED selected_key

\* Item set that goes through the contract's insert.
ItemSetByInsert(k, v) ==
    /\ Idle
    /\ Fits(Insert(items, k, v).c)
    /\ items' = Insert(items, k, v).c
    /\ ret' = Unit
    /\ call' = Called("item_set", <<k, v>>)
    /\ pc' = "done"
    /\ UNCHANGED selected_key

\* CollectionItem::set: the contract's set, its bool discarded.
ItemSet(k, v) ==
    /\ Idle
    /\ items' = Set(items, k, v).c
    /\ ret' = Unit
    /\ call' = Called("item_set", <<k, v>>)
    /\ pc' = "done"
    /\ UNCHANGED selected_key

(***************************************************************************)
(* CollectionStore::iter                                                   *)
(***************************************************************************)
\* iter(): keys() is read once (ks is what it returned) and the iterator owns the
\* snapshot.  yielded records the keys of the Items handed out so far.
StoreIter(ks) ==
    /\ Idle
    /\ iter' = Some([keys |-> ks, pos |-> 0, yielded |-> <<>>])
    /\ ret' = Unit
    /\ call' = Called("iter", <<ks>>)
    /\ pc' = "done"
    /\ UNCHANGED <<items, selected_key, leases>>

\* next() over the container as it is now, not over the snapshot.
IterNextLive ==
    /\ Idle
    /\ IsSome(iter)
    /\ LET it == Unwrap(iter)
       IN  \E ks \in KeysOf(items) :
               IF it.pos < Len(ks)
               THEN /\ ret' = Some(ks[it.pos + 1])
                    /\ iter' = Some([it EXCEPT !.pos = it.pos + 1,
                                               !.yielded = Append(it.yielded, ks[it.pos + 1])])
               ELSE /\ ret' = None
                    /\ iter' = iter
    /\ call' = Called("iter_next", <<Unwrap(iter)>>)
    /\ pc' = "done"
    /\ UNCHANGED <<items, selected_key, leases>>

\* next() on the iterator: the Item of the next snapshotted key, None at the end.
IterNext ==
    /\ Idle
    /\ IsSome(iter)
    /\ LET it == Unwrap(iter)
       IN  IF it.pos < Len(it.keys)
           THEN /\ ret' = Some(it.keys[it.pos + 1])
                /\ iter' = Some([it EXCEPT !.pos = it.pos + 1,
                                           !.yielded = Append(it.yielded, it.keys[it.pos + 1])])
           ELSE /\ ret' = None
                /\ iter' = iter
    /\ call' = Called("iter_next", <<Unwrap(iter)>>)
    /\ pc' = "done"
    /\ UNCHANGED <<items, selected_key, leases>>

(***************************************************************************)
(* Accessors held across calls                                             *)
(***************************************************************************)
\* try_read that unwraps the runtime's answer.
ItemTryReadUnwrap(k) ==
    /\ Idle
    /\ leases.readers < MaxReaders
    /\ call' = Called("try_read", <<k, leases>>)
    /\ IF ~SharedFree(leases) \/ ItemResolve(items, k) = Panic
       THEN ret' = Panic /\ pc' = "panicked" /\ UNCHANGED leases
       ELSE /\ ret' = ItemResolve(items, k)
            /\ pc' = "done"
            /\ leases' = [leases EXCEPT !.readers = leases.readers + 1]
    /\ UNCHANGED <<items, selected_key, iter>>

\* item.try_read(): the runtime's refusal is handed on; a granted lease is mapped
\* to the value of the key, or panics when the key is missing.  The accessor
\* stays with the caller.
ItemTryRead(k) ==
    /\ Idle
    /\ leases.readers < MaxReaders
    /\ call' = Called("try_read", <<k, leases>>)
    /\ IF ~SharedFree(leases)
       THEN ret' = ErrBorrow /\ pc' = "done" /\ UNCHANGED leases
       ELSE IF ItemResolve(items, k) = Panic
            THEN ret' = Panic /\ pc' = "panicked" /\ UNCHANGED leases
            ELSE /\ ret' = ItemResolve(items, k)
                 /\ pc' = "done"
                 /\ leases' = [leases EXCEPT !.readers = leases.readers + 1]
    /\ UNCHANGED <<items, selected_key, iter>>

\* try_write that is refused only by a read accessor or by a write accessor of
\* the same key.
ItemTryWritePerKey(k) ==
    /\ Idle
    /\ call' = Called("try_write", <<k, leases>>)
    /\ IF leases.readers > 0 \/ leases.writer = Some(k)
       THEN ret' = ErrBorrowMut /\ pc' = "done" /\ UNCHANGED leases
       ELSE IF ~IsSome(GetMut(items, k))
            THEN ret' = Panic /\ pc' = "panicked" /\ UNCHANGED leases
            ELSE /\ ret' = Ok
                 /\ pc' = "done"
                 /\ leases' = [leases EXCEPT !.writer = Some(k)]
    /\ UNCHANGED <<items, selected_key, iter>>

\* item.try_write(): as try_read, with the exclusive lease and get_mut.
ItemTryWrite(k) ==
    /\ Idle
    /\ call' = Called("try_write", <<k, leases>>)
    /\ IF ~ExclusiveFree(leases)
       THEN ret' = ErrBorrowMut /\ pc' = "done" /\ UNCHANGED leases
       ELSE IF ~IsSome(GetMut(items, k))
            THEN ret' = Panic /\ pc' = "panicked" /\ UNCHANGED leases
            ELSE /\ ret' = Ok
                 /\ pc' = "done"
                 /\ leases' = [leases EXCEPT !.writer = Some(k)]
    /\ UNCHANGED <<items, selected_key, iter>>

\* Dropping a write accessor that leaves the lease out.
DropWriteLeak ==
    /\ Idle
    /\ IsSome(leases.writer)
    /\ call' = Called("drop_write", <<leases>>)
    /\ ret' = Unit
    /\ pc' = "done"
    /\ UNCHANGED <<items, selected_key, iter, leases>>

\* *accessor = v through the write accessor the caller holds.
WriteThrough(v) ==
    /\ Idle
    /\ IsSome(leases.writer)
    /\ LET k == Unwrap(leases.writer)
       IN  /\ items' = WriteSlot(items, Unwrap(GetMut(items, k)), v)
           /\ leases' = [leases EXCEPT !.wrote = Some(<<k, v>>)]
    /\ call' = Called("deref_mut", <<v, leases>>)
    /\ ret' = Unit
    /\ pc' = "done"
    /\ UNCHANGED <<selected_key, iter>>

\* The caller drops one of its read accessors.
DropRead ==
    /\ Idle
    /\ leases.readers > 0
    /\ leases' = [leases EXCEPT !.readers = leases.readers - 1]
    /\ call' = Called("drop_read", <<leases>>)
    /\ ret' = Unit
    /\ pc' = "done"
    /\ UNCHANGED <<items, selected_key, iter>>

\* The caller drops its write accessor.
DropWrite ==
    /\ Idle
    /\ IsSome(leases.writer)
    /\ leases' = [leases EXCEPT !.writer = None]
    /\ call' = Called("drop_write", <<leases>>)
    /\ ret' = Unit
    /\ pc' = "done"
    /\ UNCHANGED <<items, selected_key, iter>>

\* The store operations that take items().read() and items().write().
SharedOps == {"len"}

ExclusiveOps == {"insert", "set", "push", "pop", "item_set"}

\* read() / write() inside a store operation unwrap the runtime's answer: with a
\* conflicting accessor alive the operation panics.
StoreBorrowPanic(op) ==
    /\ Idle
    /\ IF op \in SharedOps THEN ~SharedFree(leases) ELSE ~ExclusiveFree(leases)
    /\ ret' = Panic
    /\ pc' = "panicked"
    /\ call' = Called(op, <<leases>>)
    /\ UNCHANGED <<items, selected_key, iter, leases>>

\* len() with no write accessor alive.
StoreLenCall ==
    /\ Idle
    /\ SharedFree(leases)
    /\ ret' = Some(StoreLen)
    /\ call' = Called("len", <<leases>>)
    /\ pc' = "done"
    /\ UNCHANGED <<items, selected_key, iter, leases>>

\* A mutating store operation with no accessor alive: the container may differ
\* from what the last write accessor left.
Mutates ==
    /\ ExclusiveFree(leases)
    /\ leases' = [leases EXCEPT !.wrote = None]
    /\ UNCHANGED iter

(***************************************************************************)
(* The specification                                                       *)
(***************************************************************************)
\* CollectionStore::new(collection): the container handed over, nothing selected.
Init ==
    /\ items \in {VecNew, MapNew} \cup {RingNew(capacity) : capacity \in 1..MaxLen}
    /\ selected_key = None
    /\ pc = "idle"
    /\ call = NoCall
    /\ ret = Unit
    /\ iter = None
    /\ leases = NoLeases

\* The arguments of extend: no pair, one pair, or two pairs whose second key is
\* the first key again (a duplicate) or the next one.
Pairs == Keys \X Values

ExtendArgs ==
    {<<>>} \cup {<<p>> : p \in Pairs}
           \cup {s \in Pairs \X Pairs : s[2][1] \in {s[1][1], s[1][1] + 1}}

\* The arguments of select_by_display: the rendering of each value looked for.
DisplayArgs == {to_string(v) : v \in Probes}

Next ==
    \/ \E k \in Keys : StoreSelect(k) /\ UNCHANGED held
    \/ \E k \in Keys : ItemSelect(k) /\ UNCHANGED held
    \/ \E ks \in KeysOf(items) : \E v \in Probes : StoreSelectByValue(v, ks) /\ UNCHANGED held
    \/ \E ks \in KeysOf(items) : \E s \in DisplayArgs : StoreSelectByDisplay(s, ks) /\ UNCHANGED held
    \/ StoreClearSelection /\ UNCHANGED held
    \/ \E k \in Keys, v \in Values : StoreInsert(k, v) /\ UNCHANGED held
    \/ \E k \in Keys, v \in Values : StoreSet(k, v) /\ UNCHANGED held
    \/ \E pairs \in ExtendArgs : StoreExtend(pairs) /\ UNCHANGED held
    \/ \E k \in Keys : StoreRemove(k) /\ UNCHANGED held
    \/ \E k \in Keys : ItemRemove(k) /\ UNCHANGED held
    \/ StoreRemoveItems /\ UNCHANGED held
    \/ StoreClear /\ UNCHANGED held
    \/ StoreClearFinish /\ UNCHANGED held
    \/ \E v \in Values : StorePush(v) /\ UNCHANGED held
    \/ StorePop /\ UNCHANGED held
    \/ \E k1 \in Keys, k2 \in Keys : StoreSwap(k1, k2) /\ UNCHANGED held
    \/ \E k \in Keys : ItemRead(k) /\ UNCHANGED held
    \/ \E k \in Keys : ItemPeek(k) /\ UNCHANGED held
    \/ \E k \in Keys, v \in Values : ItemWrite(k, v) /\ UNCHANGED held
    \/ \E k \in Keys, v \in Values : ItemSet(k, v) /\ UNCHANGED held
    \/ Return /\ UNCHANGED held

Spec == Init /\ [][Next]_vars

(***************************************************************************)
(* The ring buffer alone, at capacities up to RingCap, under push, remove  *)
(* and pop.                                                                *)
(***************************************************************************)
InitRing ==
    /\ items \in {RingNew(capacity) : capacity \in 1..RingCap}
    /\ selected_key = None
    /\ pc = "idle"
    /\ call = NoCall
    /\ ret = Unit
    /\ iter = None
    /\ leases = NoLeases

NextRing ==
    \/ \E v \in Values : StorePush(v) /\ UNCHANGED held
    \/ \E k \in 0..RingCap : StoreRemove(k) /\ UNCHANGED held
    \/ StoreRemoveItems /\ UNCHANGED held
    \/ StorePop /\ UNCHANGED held
    \/ Return /\ UNCHANGED held

SpecRing == InitRing /\ [][NextRing]_vars

(***************************************************************************)
(* An iterator consumed while the store is being changed.                  *)
(***************************************************************************)
\* Keys handed to the operations next to an iterator.
IterKeys == {k \in Keys : k < MaxLen}

NextIter ==
    \/ \E ks \in KeysOf(items) : StoreIter(ks)
    \/ IterNext
    \/ \E k \in IterKeys : ItemRead(k) /\ UNCHANGED held
    \/ \E k \in IterKeys, v \in Values : StoreInsert(k, v) /\ UNCHANGED held
    \/ \E k \in IterKeys, v \in Values : StoreSet(k, v) /\ UNCHANGED held
    \/ \E v \in Values : StorePush(v) /\ UNCHANGED held
    \/ \E k \in IterKeys : StoreRemove(k) /\ UNCHANGED held
    \/ StoreRemoveItems /\ UNCHANGED held
    \/ StoreClear /\ UNCHANGED held
    \/ StoreClearFinish /\ UNCHANGED held
    \/ Return /\ UNCHANGED held

SpecIter == Init /\ [][NextIter]_vars

(***************************************************************************)
(* Accessors kept alive across store operations.                           *)
(***************************************************************************)
NextLease ==
    \/ \E k \in Keys : ItemTryRead(k)
    \/ \E k \in Keys : ItemTryWrite(k)
    \/ \E v \in Values : WriteThrough(v)
    \/ DropRead
    \/ DropWrite
    \/ \E op \in SharedOps \cup ExclusiveOps : StoreBorrowPanic(op)
    \/ StoreLenCall
    \/ \E k \in Keys, v \in Values : StoreInsert(k, v) /\ Mutates
    \/ \E k \in Keys, v \in Values : StoreSet(k, v) /\ Mutates
    \/ \E k \in Keys, v \in Values : ItemSet(k, v) /\ Mutates
    \/ \E v \in Values : StorePush(v) /\ Mutates
    \/ StorePop /\ Mutates
    \/ Return /\ UNCHANGED held

SpecLease == Init /\ [][NextLease]_vars

(***************************************************************************)
(* The ordered map under insert, set, extend, remove and iter.             *)
(***************************************************************************)
InitOrdered ==
    /\ items = BTreeNew
    /\ selected_key = None
    /\ pc = "idle"
    /\ call = NoCall
    /\ ret = Unit
    /\ iter = None
    /\ leases = NoLeases

NextOrdered ==
    \/ \E k \in Keys, v \in Values : StoreInsert(k, v) /\ UNCHANGED held
    \/ \E k \in Keys, v \in Values : StoreSet(k, v) /\ UNCHANGED held
    \/ \E pairs \in ExtendArgs : StoreExtend(pairs) /\ UNCHANGED held
    \/ \E k \in Keys : StoreRemove(k) /\ UNCHANGED held
    \/ StoreRemoveItems /\ UNCHANGED held
    \/ \E ks \in KeysOf(items) : StoreIter(ks)
    \/ Return /\ UNCHANGED held

SpecOrdered == InitOrdered /\ [][NextOrdered]_vars

(***************************************************************************)
(* Properties                                                              *)
(***************************************************************************)
\* A call of `op` has returned.
Done(op) == pc = "done" /\ call.op = op

\* Between calls or with a result at hand: not inside an operation.
AtRest == pc \in {"idle", "done"}

\* The least position among the matching positions `hit` of ks.
FirstHit(ks, hit) == CHOOSE i \in hit : \A j \in hit : i <= j

\* C1: whenever the store is at rest, a selected key exists in the container.
C1_SelectionExists ==
    AtRest => (IsSome(selected_key) => StoreContainsKey(Unwrap(selected_key)))

\* C2: when pop removes the selected element (its key existed before the pop and
\* does not after it), nothing is selected once pop has returned.
C2_PopClearsVanishedSelection ==
    (/\ Done("pop")
     /\ IsSome(call.pre_sel)
     /\ ContainsKey(call.pre_items, Unwrap(call.pre_sel))
     /\ ~ContainsKey(items, Unwrap(call.pre_sel)))
    => selected_key = None

\* C3: select(k) returns Ok and leaves Some(k) selected iff k existed at the call;
\* otherwise it returns Err(KeyNotFound) and the selection is what it was.
C3_Select ==
    Done("select") =>
        LET k == call.args[1]
        IN  /\ items = call.pre_items
            /\ ret \in {Ok, ErrKeyNotFound}
            /\ ret = Ok <=> ContainsKey(call.pre_items, k)
            /\ ret = Ok => selected_key = Some(k)
            /\ ret = ErrKeyNotFound => selected_key = call.pre_sel

\* C3 witness: a select of a missing key failed while another key was selected.
C3_Witness ==
    /\ Done("select")
    /\ ret = ErrKeyNotFound
    /\ IsSome(call.pre_sel)
    /\ Length(items) > 0

\* C4: remove(k), from the store or from an Item, called while k is selected,
\* returns what was stored at k and leaves nothing selected; on an array the
\* elements after k have moved down by one ([10,20,30] becomes [10,30]).
C4_RemoveSelected ==
    ((Done("remove") \/ Done("item_remove")) /\ call.pre_sel = Some(call.args[1])) =>
        LET k == call.args[1]
            old == call.pre_items
        IN  /\ ret = Get(old, k)
            /\ selected_key = None
            /\ StoreSelected = None
            /\ (old.kind = "vec" /\ k < Len(old.data)) =>
                   /\ Len(items.data) = Len(old.data) - 1
                   /\ \A i \in 1..Len(items.data) :
                          items.data[i] = IF i <= k THEN old.data[i] ELSE old.data[i + 1]

\* C4 witness: the middle element of a three-element array, selected, was removed
\* and the two values around it are left.
C4_Witness ==
    /\ Done("remove")
    /\ call.pre_sel = Some(1)
    /\ call.args[1] = 1
    /\ call.pre_items.kind = "vec"
    /\ call.pre_items.data = <<1, 2, 1>>
    /\ ret = Some(2)
    /\ items.data = <<1, 1>>

\* C5: inside remove(k) the selection never is k once the first sub-step has run:
\* between the sub-steps the container is still untouched and a selection of k
\* is already gone, and the contract-level remove leaves the selection alone.
C5_RemoveOrder ==
    (call.op \in {"remove", "item_remove"} /\ pc \in {"remove_items", "done"}) =>
        LET k == call.args[1]
        IN  /\ selected_key # Some(k)
            /\ call.pre_sel = Some(k) => selected_key = None
            /\ call.pre_sel # Some(k) => selected_key = call.pre_sel
            /\ pc = "remove_items" => items = call.pre_items

\* C5 witness: between the two sub-steps of removing the selected, existing key.
C5_Witness ==
    /\ pc = "remove_items"
    /\ call.pre_sel = Some(call.args[1])
    /\ StoreContainsKey(call.args[1])
    /\ selected_key = None

\* C6: once clear has returned the container is empty and nothing is selected.
C6_Clear ==
    Done("clear") =>
        /\ StoreLen = 0
        /\ StoreIsEmpty
        /\ KeysOf(items) = {<<>>}
        /\ \A k \in Keys : ~StoreContainsKey(k)
        /\ Sequential(items) => (StoreFirst = None /\ StoreLast = None /\ First(items) = None)
        /\ selected_key = None
        /\ StoreSelected = None

\* C6 witness: a non-empty container with a selection was cleared.
C6_Witness ==
    /\ Done("clear")
    /\ Length(call.pre_items) > 0
    /\ IsSome(call.pre_sel)

\* What select_by_value / select_by_display must leave: the first key of the
\* snapshot ks whose value matches, or Err(KeyNotFound) and the old selection.
FirstMatchSelected(mode) ==
    LET wanted == call.args[1]
        ks == call.args[2]
        hit == {i \in 1..Len(ks) :
                   /\ IsSome(Get(call.pre_items, ks[i]))
                   /\ Matches(mode, Unwrap(Get(call.pre_items, ks[i])), wanted)}
    IN  /\ ks \in KeysOf(call.pre_items)
        /\ items = call.pre_items
        /\ IF hit = {}
           THEN ret = ErrKeyNotFound /\ selected_key = call.pre_sel
           ELSE ret = Ok /\ selected_key = Some(ks[FirstHit(ks, hit)])

\* C7: select_by_value and select_by_display select the first match in keys()
\* order, also among duplicates, and fail with the selection unchanged when
\* nothing matches.
C7_SelectByFirstMatch ==
    /\ Done("select_by_value") => FirstMatchSelected("value")
    /\ Done("select_by_display") => FirstMatchSelected("display")

\* C7 witness: two elements hold the value looked for and the earlier one in
\* keys() order was selected, replacing a selection of the later one.
C7_Witness ==
    /\ Done("select_by_value")
    /\ ret = Ok
    /\ \E i, j \in 1..Len(call.args[2]) :
           /\ i < j
           /\ Get(items, call.args[2][i]) = Some(call.args[1])
           /\ Get(items, call.args[2][j]) = Some(call.args[1])
           /\ call.pre_sel = Some(call.args[2][j])
           /\ selected_key = Some(call.args[2][i])

\* C8: at most one Item key is selected, is_selected agrees with selected_key,
\* and a successful select(k2) leaves k2 the only selected key.
C8_SingleSelection ==
    AtRest =>
        /\ Cardinality({k \in Keys : ItemIsSelected(k)}) <= 1
        /\ \A k \in Keys : ItemIsSelected(k) <=> (StoreSelectedKey = Some(k))
        /\ (Done("select") /\ ret = Ok) =>
               \A k \in Keys : ItemIsSelected(k) <=> (k = call.args[1])

\* C8 witness: a select moved the selection from one key to another.
C8_Witness ==
    /\ Done("select")
    /\ ret = Ok
    /\ IsSome(call.pre_sel)
    /\ call.pre_sel # Some(call.args[1])
    /\ ~ItemIsSelected(Unwrap(call.pre_sel))
    /\ ItemIsSelected(call.args[1])

C10_KeysMatchGet ==
    LET present == {k \in 0..(MaxLen + 1) : IsSome(Get(items, k))}
    IN  /\ \A ks \in KeysOf(items) :
               /\ \A i, j \in 1..Len(ks) : i # j => ks[i] # ks[j]
               /\ {ks[i] : i \in 1..Len(ks)} = present
               /\ Len(ks) = Length(items)
        /\ KeysOf(items) # {}
        /\ Length(items) = Cardinality(present)
        /\ IsEmpty(items) <=> (Length(items) = 0)
        /\ StoreIsEmpty <=> (StoreLen = 0)
        /\ \A k \in 0..(MaxLen + 1) :
               /\ ContainsKey(items, k) <=> (k \in present)
               /\ StoreContainsKey(k) <=> (k \in present)

\* C10 witness: a ring buffer that has wrapped and then lost an element.
C10_Witness ==
    /\ items.kind = "ring"
    /\ items.start > 0
    /\ items.len > 0
    /\ items.len < items.capacity
    /\ pc = "done"


\* The keys 0 .. n-1.
Below(n) == {i \in 0..n : i < n}

C12_VecRemove ==
    (Done("remove") /\ call.pre_items.kind = "vec") =>
        LET pre == call.pre_items
            k == call.args[1]
            len == Length(pre)
        IN  /\ k < len =>
                  /\ ret = Get(pre, k)
                  /\ Length(items) + 1 = len
                  /\ \A i \in Below(k) : Get(items, i) = Get(pre, i)
                  /\ \A i \in Below(Length(items)) : i >= k => Get(items, i) = Get(pre, i + 1)
            /\ k >= len => items = pre /\ ret = None

\* C12 witness: remove(0) on the array [1, 2, 2] returned 1 and shifted both later
\* elements down.
C12_Witness ==
    /\ Done("remove")
    /\ call.pre_items = [kind |-> "vec", data |-> <<1, 2, 2>>]
    /\ call.args = <<0>>
    /\ ret = Some(1)
    /\ items.data = <<2, 2>>

\* C13: on the map adapter, insert(k, v) of an absent key adds the pair, returns
\* None and grows len by one; of a present key it replaces the value, returns the
\* displaced value and keeps len; no other entry changes.  remove(k) returns the
\* value stored at k, or None when k is absent, and k is absent afterwards, so a
\* second remove of the same key returns None.
C13_MapInsertRemove ==
    /\ (Done("insert") /\ call.pre_items.kind = "map") =>
           LET pre == call.pre_items
               k == call.args[1]
               v == call.args[2]
           IN  /\ Get(items, k) = Some(v)
               /\ ret = Get(pre, k)
               /\ Length(items) = Length(pre) + (IF ContainsKey(pre, k) THEN 0 ELSE 1)
               /\ \A x \in Keys \ {k} : Get(items, x) = Get(pre, x)
    /\ (Done("remove") /\ call.pre_items.kind = "map") =>
           LET pre == call.pre_items
               k == call.args[1]
           IN  /\ ret = Get(pre, k)
               /\ ~ContainsKey(items, k)
               /\ Remove(items, k).ret = None
               /\ \A x \in Keys \ {k} : Get(items, x) = Get(pre, x)

\* C13 witness: a two-entry map whose first key was just overwritten (the displaced
\* value returned) takes a third key: None is returned and len is 3.
C13_Witness ==
    /\ Done("insert")
    /\ call.pre_items.kind = "map"
    /\ DOMAIN call.pre_items.entries = {0, 1}
    /\ call.args[1] = 2
    /\ ret = None
    /\ Length(items) = 3

C15_ExtendIsRepeatedInsert ==
    Done("extend") =>
        LET pre == call.pre_items
            pairs == call.args[1]
            after1 == Insert(pre, pairs[1][1], pairs[1][2]).c
            after2 == Insert(after1, pairs[2][1], pairs[2][2]).c
        IN  /\ Len(pairs) = 0 => items = pre
            /\ Len(pairs) = 1 => items = after1
            /\ Len(pairs) = 2 => items = after2
            /\ (Len(pairs) = 2 /\ pairs[1][1] = pairs[2][1] /\ ContainsKey(items, pairs[1][1]))
                  => Get(items, pairs[1][1]) = Some(pairs[2][2])
            /\ (pre.kind = "vec" /\ Len(pairs) = 1 /\ pairs[1][1] > Length(pre)) => items = pre
            /\ (pre.kind = "vec" /\ Len(pairs) = 2 /\ pairs[1][1] > Length(pre))
                  => items = Insert(pre, pairs[2][1], pairs[2][2]).c

\* C15 witness: extend with the same key twice on an array: the later value stays.
C15_Witness ==
    /\ Done("extend")
    /\ call.pre_items = [kind |-> "vec", data |-> <<1>>]
    /\ call.args = << <<(<<1, 1>>), (<<1, 2>>)>> >>
    /\ items.data = <<1, 2>>


C17_RingAgeOrder ==
    (Done("push") /\ call.pre_items.kind = "ring") =>
        LET pre == call.pre_items
            v == call.args[1]
        IN  /\ \A i \in Below(Length(items)) : i + 1 = Length(items) => Get(items, i) = Some(v)
            /\ Length(pre) < pre.capacity =>
                   \A i \in Below(Length(pre)) : Get(items, i) = Get(pre, i)

\* C18: on the ring buffer, remove(k) with k < len returns the element at logical
\* index k, shortens the buffer by one, keeps the elements before k and moves every
\* later element one key down; with k >= len it returns None and changes nothing.
C18_RingRemove ==
    (Done("remove") /\ call.pre_items.kind = "ring") =>
        LET pre == call.pre_items
            k == call.args[1]
            len == Length(pre)
        IN  /\ k < len =>
                  /\ ret = Get(pre, k)
                  /\ Length(items) + 1 = len
                  /\ \A i \in Below(k) : Get(items, i) = Get(pre, i)
                  /\ \A i \in Below(Length(items)) : i >= k => Get(items, i) = Get(pre, i + 1)
            /\ k >= len => items = pre /\ ret = None

\* C19: on an array or a ring buffer, pop() on a non-empty container returns the
\* element at key len - 1, shortens the container by one and leaves every other
\* element at its key; on an empty container it returns None and changes nothing.
C19_PopFromEnd ==
    Done("pop") =>
        LET pre == call.pre_items
            len == Length(pre)
        IN  /\ len > 0 =>
                  /\ \A i \in Below(len) : i + 1 = len => ret = Get(pre, i)
                  /\ Length(items) + 1 = len
                  /\ \A i \in Below(Length(items)) : Get(items, i) = Get(pre, i)
            /\ len = 0 => items = pre /\ ret = None

\* C20: in a ring buffer, logical index i < len resolves to the physical slot
\* (start + i) mod capacity of the backing storage.
C20_RingPhysicalSlot ==
    items.kind = "ring" =>
        \A i \in Below(items.len) :
            RingRealIndex(items, i) = Some((items.start + i) % items.capacity)


\* C21: once a ring buffer is full (len = capacity), it is still full after every
\* later operation.
C21_RingStaysFull ==
    (pc = "done" /\ call.pre_items.kind = "ring"
                 /\ call.pre_items.len = call.pre_items.capacity) =>
        items.len = items.capacity

\* C22: a ring buffer always has 0 <= len <= capacity and a backing storage of
\* exactly len elements.
C22_RingBounds ==
    items.kind = "ring" =>
        /\ items.len \in 0..items.capacity
        /\ Len(items.data) = items.len

\* C22 witness: a ring buffer that wrapped, lost an element to pop, took another
\* push and had two of its elements swapped.
C22_Witness ==
    /\ Done("swap")
    /\ ret = Ok
    /\ items.kind = "ring"
    /\ items.start > 0
    /\ items.len = items.capacity
    /\ items # call.pre_items

\* C23: on the ring buffer, insert(k, v) with k = len on a buffer that is not full
\* appends v (len grows by one and v is at the old len); with k > len it changes
\* nothing and returns None.
C23_RingInsertAppends ==
    (Done("insert") /\ call.pre_items.kind = "ring") =>
        LET pre == call.pre_items
            k == call.args[1]
            v == call.args[2]
            len == Length(pre)
        IN  /\ (k = len /\ len < pre.capacity) =>
                  /\ Length(items) = len + 1
                  /\ Get(items, len) = Some(v)
            /\ k > len => items = pre /\ ret = None

\* C24: the store's swap(k1, k2) returns Ok iff both keys exist; then the values at
\* k1 and k2 are exchanged and len and every other element stay; otherwise it
\* returns KeyNotFound and the container is unchanged.
C24_Swap ==
    Done("swap") =>
        LET pre == call.pre_items
            k1 == call.args[1]
            k2 == call.args[2]
        IN  /\ (ret = Ok) <=> (ContainsKey(pre, k1) /\ ContainsKey(pre, k2))
            /\ ret = Ok =>
                  /\ Get(items, k1) = Get(pre, k2)
                  /\ Get(items, k2) = Get(pre, k1)
                  /\ Length(items) = Length(pre)
                  /\ \A i \in Keys \ {k1, k2} : Get(items, i) = Get(pre, i)
            /\ ret # Ok => ret = ErrKeyNotFound /\ items = pre
            /\ selected_key = call.pre_sel

\* C24 witness: the first and last elements of a three-element array changed
\* places.
C24_Witness ==
    /\ Done("swap")
    /\ call.pre_items = [kind |-> "vec", data |-> <<1, 2, 2>>]
    /\ call.args = <<0, 2>>
    /\ ret = Ok
    /\ items.data = <<2, 2, 1>>

\* C26: Item.set(v) on an existing key makes every read of that key return v and
\* leaves every other element, len and the selection alone; on a vanished key it
\* returns without error and changes nothing.
C26_ItemSet ==
    /\ call.op = "item_set" => pc = "done" /\ ret = Unit
    /\ Done("item_set") =>
           LET pre == call.pre_items
               k == call.args[1]
               v == call.args[2]
           IN  /\ selected_key = call.pre_sel
               /\ ContainsKey(pre, k) =>
                     /\ ItemResolve(items, k) = Some(v)
                     /\ IsSome(GetMut(items, k))
                     /\ Length(items) = Length(pre)
                     /\ \A x \in Keys \ {k} : Get(items, x) = Get(pre, x)
               /\ ~ContainsKey(pre, k) => items = pre

\* C26 witness: Item.set on the key one past the end of an array, with another key
\* selected, changed nothing.
C26_Witness ==
    /\ Done("item_set")
    /\ call.pre_items = [kind |-> "vec", data |-> <<1, 2>>]
    /\ call.args = <<2, 2>>
    /\ selected_key = Some(0)
    /\ items = call.pre_items

C25_IterSnapshot ==
    /\ Done("iter") =>
           /\ call.args[1] \in KeysOf(call.pre_items)
           /\ iter = Some([keys |-> call.args[1], pos |-> 0, yielded |-> <<>>])
    /\ IsSome(iter) =>
           LET it == Unwrap(iter)
           IN  /\ it.pos <= Len(it.keys)
               /\ it.yielded = SubSeq(it.keys, 1, it.pos)
    /\ Done("iter_next") =>
           LET before == call.args[1]
               it == Unwrap(iter)
           IN  /\ it.keys = before.keys
               /\ before.pos < Len(before.keys) =>
                     /\ ret = Some(before.keys[before.pos + 1])
                     /\ it.pos = before.pos + 1
               /\ before.pos >= Len(before.keys) =>
                     /\ ret = None
                     /\ it.yielded = it.keys
    /\ Done("item_read") => ret = Get(items, call.args[1])

\* C25 witness: an iterator over a three-element array yields its third Item after
\* the array has been emptied.
C25_Witness ==
    /\ Done("iter_next")
    /\ items.kind = "vec"
    /\ Length(items) = 0
    /\ ret = Some(2)
    /\ Unwrap(iter).yielded = <<0, 1, 2>>

\* C28: read accessors may overlap in any number; an acquisition that would put
\* the exclusive lease next to any other lease fails at once with a borrow error
\* and changes no lease; an exclusive and another lease are never out together;
\* every acquisition ends in the step it is made.
C28_LeaseArbitration ==
    /\ ~(IsSome(leases.writer) /\ leases.readers > 0)
    /\ call.op \in {"try_read", "try_write"} => ret # Pending
    /\ call.op = "try_read" =>
           LET k == call.args[1]
               before == call.args[2]
           IN  /\ IsSome(before.writer) =>
                     pc = "done" /\ ret = ErrBorrow /\ leases = before
               /\ (~IsSome(before.writer) /\ ContainsKey(items, k)) =>
                     /\ pc = "done"
                     /\ ret = Get(items, k)
                     /\ leases.readers = before.readers + 1
    /\ call.op = "try_write" =>
           LET k == call.args[1]
               before == call.args[2]
           IN  /\ (IsSome(before.writer) \/ before.readers > 0) =>
                     pc = "done" /\ ret = ErrBorrowMut /\ leases = before
               /\ (~IsSome(before.writer) /\ before.readers = 0 /\ ContainsKey(items, k)) =>
                     pc = "done" /\ ret = Ok /\ leases.writer = Some(k)

\* C28 witness: with two read accessors alive, a write acquisition was refused.
C28_Witness ==
    /\ Done("try_write")
    /\ call.args[2].readers = 2
    /\ ret = ErrBorrowMut
    /\ leases.readers = 2

\* C29: a store or Item operation that meets a conflicting accessor does not
\* abort.
C29_ConflictIsRecoverable ==
    ~(pc = "panicked" /\ call.op \in SharedOps \cup ExclusiveOps)

\* C30: an accessor keeps its lease until it is dropped, a drop releases exactly
\* that lease and changes nothing else, and with every accessor dropped the next
\* acquisition succeeds and reads what was last written through the write accessor.
C30_LeaseRelease ==
    /\ Done("deref_mut") =>
           /\ leases.writer = call.args[2].writer
           /\ leases.readers = call.args[2].readers
           /\ Get(items, Unwrap(leases.writer)) = Some(call.args[1])
    /\ Done("len") => leases = call.args[1]
    /\ Done("drop_read") =>
           /\ leases = [call.args[1] EXCEPT !.readers = call.args[1].readers - 1]
           /\ items = call.pre_items
    /\ Done("drop_write") =>
           /\ leases = [call.args[1] EXCEPT !.writer = None]
           /\ items = call.pre_items
    /\ (call.op = "try_read" /\ ExclusiveFree(call.args[2])
                             /\ ContainsKey(items, call.args[1])) =>
           /\ pc = "done"
           /\ ret = Get(items, call.args[1])
           /\ (IsSome(call.args[2].wrote) /\ Unwrap(call.args[2].wrote)[1] = call.args[1])
                 => ret = Some(Unwrap(call.args[2].wrote)[2])
    /\ (call.op = "try_write" /\ ExclusiveFree(call.args[2])
                              /\ ContainsKey(items, call.args[1])) =>
           pc = "done" /\ ret = Ok

\* C30 witness: after a write accessor assigned 2 to key 0 and was dropped, a
\* read acquisition of key 0 succeeded and read 2.
C30_Witness ==
    /\ Done("try_read")
    /\ call.args[1] = 0
    /\ call.args[2] = [readers |-> 0, writer |-> None, wrote |-> Some(<<0, 2>>)]
    /\ ret = Some(2)
    /\ leases.readers = 1


C32_OrderedKeys ==
    items.kind = "btree" =>
        /\ \A ks \in KeysOf(items) :
               /\ Len(ks) = Length(items)
               /\ {ks[i] : i \in 1..Len(ks)} = {k \in Keys : ContainsKey(items, k)}
               /\ \A i \in 1..Len(ks) : \A j \in 1..Len(ks) : i < j => ks[i] < ks[j]
        /\ Done("iter") => Unwrap(iter).keys \in KeysOf(items)

\* C32 witness: keys inserted largest first, then one of them removed, enumerate
\* smallest first.
C32_Witness ==
    /\ Done("remove")
    /\ call.pre_items.kind = "btree"
    /\ DOMAIN call.pre_items.entries = {0, 1, 3}
    /\ call.args = <<1>>
    /\ KeysOf(items) = {<<0, 3>>}


\* The operations that select, and those that remove.
SelectOps == {"select", "item_select", "select_by_value", "select_by_display"}

RemoveOps == {"remove", "item_remove"}

\* C33: in an array store, remove(j) of a key other than the selected one leaves
\* the selection field as it was, and every key k > j with k + 1 < old len then
\* resolves to the element that was at k + 1.
C33_IndexInstability ==
    ((Done("remove") \/ Done("item_remove")) /\ call.pre_items.kind = "vec") =>
        LET pre == call.pre_items
            j == call.args[1]
        IN  /\ call.pre_sel # Some(j) => selected_key = call.pre_sel
            /\ \A k \in Keys : (j < k /\ k + 1 < Length(pre)) =>
                   ItemResolve(items, k) = Get(pre, k + 1)

\* C33 witness: with key 1 of [1, 1, 2] selected, remove(0) leaves key 1 selected,
\* and key 1 now reads 2.
C33_Witness ==
    /\ Done("remove")
    /\ call.pre_items = [kind |-> "vec", data |-> <<1, 1, 2>>]
    /\ call.pre_sel = Some(1)
    /\ call.args = <<0>>
    /\ selected_key = Some(1)
    /\ ItemResolve(items, 1) = Some(2)

\* C34: insert, set, extend, push, swap and iter, a select* that fails, and a
\* remove of a key other than the selected one leave the selection as it was; the
\* selection changes only through a select* that succeeds, clear_selection, a
\* remove of the selected key, or clear.
C34_SelectionFrame ==
    pc # "idle" =>
        LET op == call.op
            same == selected_key = call.pre_sel
        IN  /\ op \in {"insert", "set", "extend", "push", "swap", "iter"} => same
            /\ (op \in SelectOps /\ ret # Ok) => same
            /\ (op \in RemoveOps /\ call.pre_sel # Some(call.args[1])) => same
            /\ ~same =>
                  \/ op \in SelectOps /\ ret = Ok
                  \/ op = "clear_selection"
                  \/ op \in RemoveOps /\ call.pre_sel = Some(call.args[1])
                  \/ op = "clear"

\* C34 witness: a swap exchanged the selected element with another one and the
\* selection stayed on its key.
C34_Witness ==
    /\ Done("swap")
    /\ ret = Ok
    /\ call.args = <<0, 1>>
    /\ call.pre_sel = Some(0)
    /\ selected_key = Some(0)
    /\ items # call.pre_items

\* C35: select, select_by_value, select_by_display, clear_selection, iter and len
\* never change the container, whether they succeed or fail.
C35_ContainerFrame ==
    (pc # "idle" /\ call.op \in SelectOps \cup {"clear_selection", "iter", "len"}) =>
        /\ items = call.pre_items
        /\ KeysOf(items) = KeysOf(call.pre_items)
        /\ Length(items) = Length(call.pre_items)

\* C35 witness: select_by_value found its value in a three-entry map.
C35_Witness ==
    /\ Done("select_by_value")
    /\ ret = Ok
    /\ items.kind = "map"
    /\ Length(items) = 3
    /\ selected_key # call.pre_sel

\* C36: remove(k) and Item.remove() of a key missing from the container return
\* None, leave the container as it was and raise nothing.
C36_RemoveAbsent ==
    /\ call.op \in RemoveOps => pc # "panicked"
    /\ ((Done("remove") \/ Done("item_remove")) /\ ~ContainsKey(call.pre_items, call.args[1])) =>
           /\ ret = None
           /\ items = call.pre_items

\* C36 witness: Item.remove() of a key missing from a two-entry map.
C36_Witness ==
    /\ Done("item_remove")
    /\ call.pre_items.kind = "map"
    /\ DOMAIN call.pre_items.entries = {0, 1}
    /\ call.args = <<2>>
    /\ ret = None


\* C37: in every state of a sequential container, push(v) followed by pop()
\* returns Some(v), and on an array and on a ring buffer below its capacity the
\* pair leaves the container as it was.
C37_PushPopRoundTrip ==
    (pc = "idle" /\ Sequential(items)) =>
        \A v \in Values :
            /\ Pop(Push(items, v)).ret = Some(v)
            /\ (items.kind = "vec" \/ Length(items) < items.capacity) =>
                   Pop(Push(items, v)).c = items

\* C38: on a sequential container first() is get(0): the element of key 0 when
\* the container is non-empty, None exactly when it is empty.
C38_FirstIsGetZero ==
    (pc = "idle" /\ Sequential(items)) =>
        /\ First(items) = Get(items, 0)
        /\ First(items) = None <=> IsEmpty(items)

\* C39: leases are arbitrated on the container, not on the key: with a write
\* accessor of key k1 alive, a read or write acquisition through another key is
\* refused and changes no lease; with read accessors alive, a read acquisition
\* through any present key succeeds next to them.
C39_LeaseIsPerContainer ==
    call.op \in {"try_read", "try_write"} =>
        LET k == call.args[1]
            before == call.args[2]
        IN  /\ (IsSome(before.writer) /\ Unwrap(before.writer) # k) =>
                   /\ pc = "done"
                   /\ ret = (IF call.op = "try_read" THEN ErrBorrow ELSE ErrBorrowMut)
                   /\ leases = before
            /\ (call.op = "try_read" /\ before.readers > 0 /\ ContainsKey(items, k)) =>
                   /\ pc = "done"
                   /\ IsSome(ret)
                   /\ leases = [before EXCEPT !.readers = before.readers + 1]

\* C39 witness: with the write accessor of key 0 alive, a write acquisition
\* through key 1, which is present, was refused.
C39_Witness ==
    /\ Done("try_write")
    /\ call.args[1] = 1
    /\ call.args[2].writer = Some(0)
    /\ ContainsKey(items, 1)
    /\ ret = ErrBorrowMut
    /\ leases.writer = Some(0)

\* C40: KeyNotFound is the only error value select, select_by_value,
\* select_by_display, swap and Item.select return; they return Ok or KeyNotFound
\* and never abort.
C40_OnlyKeyNotFound ==
    /\ ret[1] = "Err" => ret = ErrKeyNotFound
    /\ call.op \in SelectOps \cup {"swap"} =>
           /\ pc = "done"
           /\ ret \in {Ok, ErrKeyNotFound}

\* C40 witness: a swap on a non-empty array with its second index past the end
\* returned KeyNotFound.
C40_Witness ==
    /\ Done("swap")
    /\ items.kind = "vec"
    /\ call.args[1] < Length(items)
    /\ call.args[2] >= Length(items)
    /\ ret = ErrKeyNotFound
    /\ items = call.pre_items

====
